---- MODULE Spec2Model ----
(***************************************************************************)
(* State-machine model of the session lifecycle manager of chat-automation *)
(* (manager.py: ChatManager), with the parts of base.py, chatgpt.py and    *)
(* browser_daemon.py its operations call.  One ChatManager instance runs   *)
(* against the shared environment: the detached browser daemon, the files  *)
(* under ~/.chat_automation and the conversation files.                    *)
(***************************************************************************)
EXTENDS Naturals, Sequences, FiniteSets, TLC

\* ------------------------------------------------------------------ bounds
\* The wall clock (in seconds) runs from 0 to MaxTime.
MaxTime == 1
\* send is called on a conversation of fewer than MaxExchanges exchanges.
MaxExchanges == 2
\* The conversations drawn as inputs of export and load hold at most MaxLen messages.
MaxLen == 2
\* A spawned daemon answers its first probe within MaxReady probes, or never.
MaxReady == 22
\* The outcomes of the attempts of one send_message are drawn for AttemptHorizon attempts.
AttemptHorizon == 4
\* The messages a conversation may hold when a send of a session begins.
MaxHeld == 1
\* The drivers a manager may have running when it connects once more.
MaxTransports == 3
\* The daemon processes two managers may have spawned when one spawns once more.
MaxSpawned == 3
\* The page is ready for the next message within MaxWaitReady polls, or never.
MaxWaitReady == 62

VARIABLES
    chatgpt,            \* ChatManager._chatgpt: "None", or the state of the ChatGPTAutomation object
    browser_started,    \* ChatManager._browser_started
    current_conversation, \* ChatManager._current_conversation
    daemon,             \* the detached daemon process: "down", "starting", "up" (endpoint reachable)
    pidFile,            \* ~/.chat_automation/browser_daemon.pid exists
    descriptor,         \* content of ~/.chat_automation/browser_cdp.json, or "none"
    pageUrl,            \* URL of the first page of the daemon's browser
    files,              \* the conversation files, by path
    now,                \* datetime.now(), in seconds
    closed,             \* history: close() has returned on this instance
    last,               \* history: the latest call, its result and what it did
    transports,         \* the playwright drivers this manager started and nobody stopped
    delivered,          \* history: the threads the current conversation's messages went into
    selection_state,    \* PerplexityConversations._selection_state
    managers,           \* two ChatManager processes: where each is in _ensure_browser
    spawned             \* the daemon processes Popen started

vars == <<chatgpt, browser_started, current_conversation, daemon, pidFile,
          descriptor, pageUrl, files, now, closed, last,
          transports, delivered, selection_state, managers, spawned>>

\* What the operations of one ChatManager on its own state leave alone; each
\* specification follows the part of it that its properties read.
ext == <<transports, delivered, selection_state, managers, spawned>>

\* The state of one ChatManager and of its daemon and files.
mgr == <<chatgpt, browser_started, current_conversation, daemon, pidFile,
         descriptor, pageUrl, files, now, closed>>

\* ------------------------------------------------------------- data model
None == "None"
NoConv == [none |-> TRUE]

\* The endpoint string base.py writes to the descriptor file.
WsEndpoint == "ws://127.0.0.1:9222"

Urls == {"blank", "home", "c1", "c2"}
\* '/c/' in url
IsThread(u) == u \in {"c1", "c2"}
\* 'chatgpt.com' in url
OnChatGPT(u) == u # "blank"

UserMsgs == {"hi"}
\* get_last_response returns the text of the last response element, or ""
Responses == {"resp", ""}
FailedToSend == "Failed to send message"
TimedOut == "Response timed out"

Message(role, content, timestamp) ==
    [role |-> role, content |-> content, timestamp |-> timestamp]

\* conv_id = f"conv_{datetime.now().strftime('%Y%m%d_%H%M%S')}"
ConvId(t) == <<"conv", t>>

Titles == {None, <<"t">>}

\* A new Conversation that starts with a message.
NewConversationGreeted(title, t) ==
    [id |-> ConvId(t),
     title |-> IF title = None THEN <<"Conversation", ConvId(t)>> ELSE title,
     messages |-> <<Message("assistant", "resp", t)>>,
     created_at |-> t,
     updated_at |-> t,
     url |-> None]

\* ChatManager.start_conversation: the Conversation it makes at time t.
NewConversation(title, t) ==
    [id |-> ConvId(t),
     title |-> IF title = None THEN <<"Conversation", ConvId(t)>> ELSE title,
     messages |-> <<>>,
     created_at |-> t,
     updated_at |-> t,
     url |-> None]

\* ------------------------------------------------------- conversation files
AutoPath(id) == <<"save_dir", id>>
ExportPaths == {<<"x.json">>}
\* A file that export_conversation did not write (another tool, an edit by hand).
ForeignPaths == {<<"old.json">>, <<"bad.json">>}
Paths == ExportPaths \cup ForeignPaths \cup {AutoPath(ConvId(t)) : t \in 0..MaxTime}

NoFile == [kind |-> "none"]
PartialFile == [kind |-> "partial"]
JsonFile(data) == [kind |-> "json", data |-> data]

\* JSON values: a string or number, and null.
JNull == [t |-> "null"]
JVal(v) == [t |-> "val", v |-> v]
JOpt(v) == IF v = None THEN JNull ELSE JVal(v)
Dec(j) == IF j.t = "null" THEN None ELSE j.v

MessageToDict(m) ==
    [role |-> JVal(m.role), content |-> JVal(m.content), timestamp |-> JVal(m.timestamp)]

\* A dump that leaves the url out.
ToDictNoUrl(c) ==
    [id |-> JVal(c.id),
     title |-> JVal(c.title),
     created_at |-> JVal(c.created_at),
     updated_at |-> JVal(c.updated_at),
     messages |-> [i \in 1..Len(c.messages) |-> MessageToDict(c.messages[i])]]

\* The dict export_conversation dumps.
ToDict(c) ==
    [id |-> JVal(c.id),
     title |-> JVal(c.title),
     created_at |-> JVal(c.created_at),
     updated_at |-> JVal(c.updated_at),
     url |-> JOpt(c.url),
     messages |-> [i \in 1..Len(c.messages) |-> MessageToDict(c.messages[i])]]

\* A JSON object (a dict once parsed), as opposed to a string, number or null.
IsObject(j) == "t" \notin DOMAIN j

\* dict.get(key, default)
Get(d, key, default) == IF key \in DOMAIN d THEN Dec(d[key]) ELSE default

MessageFromDict(m) ==
    Message(Get(m, "role", "unknown"), Get(m, "content", ""), Get(m, "timestamp", ""))

RequiredFields == {"id", "title", "messages", "created_at", "updated_at"}

\* The Conversation load_conversation builds from a parsed file.
FromDict(data) ==
    [id |-> Dec(data.id),
     title |-> Dec(data.title),
     messages |-> [i \in 1..Len(data.messages) |-> MessageFromDict(data.messages[i])],
     created_at |-> Dec(data.created_at),
     updated_at |-> Dec(data.updated_at),
     url |-> Get(data, "url", None)]

\* with open(filepath, 'w') as f: json.dump(data, f): the file afterwards.
\* "ok": written; "openfail": open raised, the file is as before;
\* "partial": the file was truncated and the write raised before its end.
WriteOutcomes == {"ok", "openfail", "partial"}
WriteFile(old, data, sv) ==
    CASE sv = "ok" -> JsonFile(data)
      [] sv = "openfail" -> old
      [] OTHER -> PartialFile

\* ------------------------------------------------------------- connection
\* A health check that finds every handle alive.
IsBrowserAliveAlways(h) == TRUE
\* A health check that never finds the handle alive.
IsBrowserAliveNever(h) == FALSE
\* ChatManager._is_browser_alive
IsBrowserAlive(h) == h = "Live"

\* What the environment decides during one _ensure_browser: whether the first
\* and the second connect_over_cdp succeed when the endpoint is reachable, and
\* what becomes of the spawned daemon within the polling window.
SpawnOutcomes == {"up", "slow", "fail"}
ConnEnv == [a1 : BOOLEAN, sp : SpawnOutcomes, a2 : BOOLEAN]
NoConnEnv == [a1 |-> TRUE, sp |-> "up", a2 |-> TRUE]
\* The choices that matter: the first attach only on a reachable endpoint, the
\* spawn's outcome only on an unreachable one, the second attach only after a spawn.
ConnChoices(h, dm) ==
    IF IsBrowserAlive(h) THEN {NoConnEnv}
    ELSE IF dm = "up"
         THEN {e \in ConnEnv : e.sp = "up" /\ (e.a1 => e.a2)}
         ELSE {e \in ConnEnv : e.a1 /\ (e.sp # "up" => e.a2)}

\* BrowserAutomation.start: connect_over_cdp succeeds only on a reachable
\* endpoint; any exception becomes RuntimeError("Browser daemon not running").
StartOk(dm, attachOk) == dm = "up" /\ attachOk

\* ChatManager._start_daemon: Popen, then up to 20 probes of the endpoint.
StartDaemon(dm, pf, url, sp) ==
    CASE dm = "up" ->
            \* the endpoint answers the first probe; the new process cannot
            \* take the port or the profile and exits
            [ok |-> TRUE, daemon |-> "up", pidFile |-> pf, pageUrl |-> url]
      [] dm # "up" /\ sp = "up" ->
            [ok |-> TRUE, daemon |-> "up", pidFile |-> TRUE, pageUrl |-> "home"]
      [] dm # "up" /\ sp = "slow" ->
            [ok |-> FALSE, daemon |-> "starting", pidFile |-> pf, pageUrl |-> url]
      [] OTHER ->
            [ok |-> FALSE, daemon |-> dm, pidFile |-> pf, pageUrl |-> url]

\* A polling loop that goes on for ten probes more.
PollLimitLonger == 20 + 10
\* for _ in range(20)
PollLimit == 20

\* await asyncio.sleep(1)
PollInterval == 1

\* urlopen(..., timeout=2)
ProbeTimeout == 2

\* The polling loop of _start_daemon from probe i on, elapsed seconds after
\* the spawn.  The endpoint answers from probe readyAt on (0: never); each of
\* the first `slow` probes runs into its timeout, the other failed probes are
\* refused at once.
RECURSIVE PollLoop(_, _, _, _)
PollLoop(i, readyAt, slow, elapsed) ==
    IF i > PollLimit
    THEN [ok |-> FALSE, polls |-> i - 1, elapsed |-> elapsed]
    ELSE LET t == elapsed + PollInterval IN
         IF readyAt # 0 /\ i >= readyAt
         THEN [ok |-> TRUE, polls |-> i, elapsed |-> t]
         ELSE PollLoop(i + 1, readyAt, slow,
                       IF i <= slow THEN t + ProbeTimeout ELSE t)

\* The part of _ensure_browser after a successful start(): navigate to
\* chatgpt.com unless the page is already there.
Connected(dm, pf, url, spawns, attaches) ==
    [chatgpt |-> "Live", browser_started |-> TRUE, daemon |-> dm, pidFile |-> pf,
     pageUrl |-> IF OnChatGPT(url) THEN url ELSE "home",
     raised |-> FALSE, spawns |-> spawns, attaches |-> attaches]

ConnectFailed(bs, dm, pf, url, spawns, attaches) ==
    [chatgpt |-> "NoPage", browser_started |-> bs, daemon |-> dm, pidFile |-> pf,
     pageUrl |-> url, raised |-> TRUE, spawns |-> spawns, attaches |-> attaches]

\* ChatManager._ensure_browser on handle h, with the environment's choices e.
EnsureBrowser(h, bs, dm, pf, url, e) ==
    IF IsBrowserAlive(h)
    THEN [chatgpt |-> h, browser_started |-> bs, daemon |-> dm, pidFile |-> pf,
          pageUrl |-> url, raised |-> FALSE, spawns |-> 0, attaches |-> 0]
    ELSE IF StartOk(dm, e.a1)
         THEN Connected(dm, pf, url, 0, 1)
         ELSE LET sd == StartDaemon(dm, pf, url, e.sp) IN
              IF ~sd.ok
              THEN ConnectFailed(bs, sd.daemon, sd.pidFile, sd.pageUrl, 1, 1)
              ELSE IF StartOk(sd.daemon, e.a2)
                   THEN Connected(sd.daemon, sd.pidFile, sd.pageUrl, 1, 2)
                   ELSE ConnectFailed(bs, sd.daemon, sd.pidFile, sd.pageUrl, 1, 2)

\* ----------------------------------------------------------------- history
\* What `last` records of a call: the operation, its argument and result,
\* whether an exception left it, and what it did on the way.
LastBase ==
    [op |-> "init", raised |-> FALSE, ret |-> "", users |-> 0, assts |-> 0,
     chats |-> 0, restarts |-> 0, spawns |-> 0, attaches |-> 0, keep |-> FALSE,
     had |-> FALSE, reachable |-> FALSE, delivery |-> "na", saved |-> "na",
     fail |-> "na", opened |-> "na", arg |-> <<>>, prev |-> <<>>]
Last(r) == r @@ LastBase

CloseOps == {"close", "close_browser", "aexit"}

\* What a call records of the call before it.
Prev == <<last.op, last.raised, last.arg>>

\* The number of messages of role `role` in conversation c.
CountRole(c, role) ==
    IF c = NoConv THEN 0
    ELSE Cardinality({i \in 1..Len(c.messages) : c.messages[i].role = role})

\* The state after construction; the descriptor file may be there from an
\* earlier run (BrowserAutomation._launch_new_browser writes it).
\* SelectionState(): selected_ids = [], selection_mode = False
SelectionState == [selected_ids |-> <<>>, selection_mode |-> FALSE]

Managers == {1, 2}

InitExt ==
    /\ transports = 0
    /\ delivered = {}
    /\ selection_state = SelectionState
    /\ managers = [m \in Managers |-> "idle"]
    /\ spawned = 0

Init ==
    /\ InitExt
    /\ chatgpt = None
    /\ browser_started = FALSE
    /\ current_conversation = NoConv
    /\ daemon = "down"
    /\ pidFile = FALSE
    /\ descriptor \in {"none", WsEndpoint}
    /\ pageUrl = "blank"
    /\ files = [p \in Paths |-> NoFile]
    /\ now = 0
    /\ closed = FALSE
    /\ last = LastBase

\* -------------------------------------------------------------- operations
\* An export that does not read the page.
UpdateConversationUrlOff(c, h, url) == c
\* ChatManager._update_conversation_url
UpdateConversationUrl(c, h, url) ==
    IF h \in {"Live", "Dead"} /\ IsThread(url) THEN [c EXCEPT !.url = url] ELSE c

\* ChatManager.start_conversation
StartConversation(title) ==
    /\ current_conversation' = NewConversation(title, now)
    /\ last' = Last([op |-> "start_conversation", ret |-> ConvId(now)])
    /\ UNCHANGED <<chatgpt, browser_started, daemon, pidFile, descriptor, pageUrl,
                   files, now, closed>>

\* BrowserAutomation.close_browser: stop(), then _clear_cdp_endpoint() unless
\* stop() raised.
CloseBrowserDescriptor(d, stopRaised) == IF stopRaised THEN d ELSE "none"

\* The handle after close(): self._chatgpt = None.
ClosedHandle(h) == None

\* ChatManager.close(keep_browser_open); stop() may raise on a handle.
CloseEffect(keep, stopRaised) ==
    /\ descriptor' = IF chatgpt # None /\ ~keep
                     THEN CloseBrowserDescriptor(descriptor, stopRaised)
                     ELSE descriptor
    /\ chatgpt' = ClosedHandle(chatgpt)
    /\ browser_started' = FALSE
    /\ closed' = TRUE
    /\ UNCHANGED <<current_conversation, daemon, pidFile, pageUrl, files, now>>

StopChoices == IF chatgpt = None THEN {FALSE} ELSE BOOLEAN

Close(keep) ==
    /\ \E stopRaised \in StopChoices : CloseEffect(keep, stopRaised)
    /\ last' = Last([op |-> "close", keep |-> keep, had |-> chatgpt # None])

\* ChatManager.close_browser
CloseBrowser ==
    /\ \E stopRaised \in StopChoices : CloseEffect(FALSE, stopRaised)
    /\ last' = Last([op |-> "close_browser", keep |-> FALSE, had |-> chatgpt # None])

\* A close() that is hard by default.
DefaultKeepBrowserOpenOff == FALSE
\* close(self, keep_browser_open: bool = True)
DefaultKeepBrowserOpen == TRUE

\* ChatManager.__aexit__: close() with its default argument
AExit ==
    /\ \E stopRaised \in StopChoices : CloseEffect(DefaultKeepBrowserOpen, stopRaised)
    /\ last' = Last([op |-> "aexit", keep |-> DefaultKeepBrowserOpen,
                     had |-> chatgpt # None])

\* The connection state an _ensure_browser result r leaves behind.
SetConn(r) ==
    /\ chatgpt' = r.chatgpt
    /\ browser_started' = r.browser_started
    /\ daemon' = r.daemon
    /\ pidFile' = r.pidFile

\* ChatManager._ensure_browser, called directly (as browser_daemon.py and the tests do)
EnsureBrowserCall ==
    \E e \in ConnChoices(chatgpt, daemon) :
        LET r == EnsureBrowser(chatgpt, browser_started, daemon, pidFile, pageUrl, e) IN
        /\ SetConn(r)
        /\ pageUrl' = r.pageUrl
        /\ last' = Last([op |-> "ensure_browser", raised |-> r.raised,
                         reachable |-> daemon = "up",
                         spawns |-> r.spawns, attaches |-> r.attaches])
        /\ UNCHANGED <<current_conversation, descriptor, files, now, closed>>

\* ChatGPTAutomation.chat: what it returns and what it leaves of the session.
\* It catches every exception of send_message, wait_for_response and
\* get_last_response, so it returns a string in every case.
\* d: "ok" (a response was read), "nosend" (send_message gave up),
\* "timeout" (wait_for_response gave up), "died" (the daemon died during delivery).
Deliveries == {"ok", "nosend", "timeout", "died"}
FailedDeliveries == {"nosend", "timeout", "died"}
Threads == {"c1", "c2"}
Chat(d, resp, th, dm, url) ==
    CASE d = "ok" ->
            [ret |-> resp, chatgpt |-> "Live", daemon |-> dm,
             pageUrl |-> IF IsThread(url) THEN url ELSE th]
      [] d = "timeout" ->
            [ret |-> TimedOut, chatgpt |-> "Live", daemon |-> dm,
             pageUrl |-> IF IsThread(url) THEN url ELSE th]
      [] d = "nosend" ->
            [ret |-> FailedToSend, chatgpt |-> "Live", daemon |-> dm, pageUrl |-> url]
      [] OTHER ->
            [ret |-> FailedToSend, chatgpt |-> "Dead", daemon |-> "down", pageUrl |-> url]

\* The responses and new threads worth distinguishing for delivery d on page url.
RespChoices(d) == IF d = "ok" THEN Responses ELSE {""}
ThreadChoices(d, url) == IF d \in {"ok", "timeout"} /\ ~IsThread(url) THEN {"c1"} ELSE {"c2"}

\* A send_message that tries once more.
MaxRetriesMore == 3 + 1

\* send_message(self, message, max_retries: int = 3)
MaxRetries == 3

\* What one attempt of send_message comes to: the message is sent, the input
\* is not found (sleep 2 and continue), an exception (sleep 3 and continue).
AttemptOutcomes == {"sent", "noinput", "error"}

\* ChatGPTAutomation.send_message from attempt i on, outs[i] the outcome of
\* attempt i.
RECURSIVE SendMessageLoop(_, _)
SendMessageLoop(i, outs) ==
    IF i > MaxRetries
    THEN [ok |-> FALSE, attempts |-> i - 1]
    ELSE IF outs[i] = "sent"
         THEN [ok |-> TRUE, attempts |-> i]
         ELSE SendMessageLoop(i + 1, outs)

\* ChatGPTAutomation.send_message on the manager's handle; on a dead handle
\* no attempt sends.
SendMessageCall ==
    /\ chatgpt \in {"Live", "Dead"}
    /\ \E outs \in [1..AttemptHorizon -> AttemptOutcomes] :
        /\ chatgpt = "Dead" => \A i \in 1..AttemptHorizon : outs[i] # "sent"
        /\ LET sm == SendMessageLoop(1, outs) IN
           /\ pageUrl' = IF sm.ok /\ ~IsThread(pageUrl) THEN "c1" ELSE pageUrl
           /\ last' = Last([op |-> "send_message",
                            ret |-> IF sm.ok THEN "True" ELSE "False",
                            attempts |-> sm.attempts])
    /\ UNCHANGED <<chatgpt, browser_started, current_conversation, daemon, pidFile,
                   descriptor, files, now, closed>>

\* A wait that polls once more.
WaitTimeoutLonger == 120000 + 2000

\* wait_for_response(self, timeout: int = 120000)
WaitTimeout == 120000

\* for _ in range(timeout // 2000): await asyncio.sleep(2)
WaitStep == 2000

\* ChatGPTAutomation.wait_for_response from poll i on: the input is enabled
\* and nothing is generating from poll readyAt on (0: never); an exception at
\* poll errAt (0: none) ends the wait.
RECURSIVE WaitLoop(_, _, _)
WaitLoop(i, readyAt, errAt) ==
    IF i > WaitTimeout \div WaitStep
    THEN [ok |-> FALSE, polls |-> i - 1]
    ELSE IF errAt # 0 /\ i >= errAt
         THEN [ok |-> FALSE, polls |-> i]
         ELSE IF readyAt # 0 /\ i >= readyAt
              THEN [ok |-> TRUE, polls |-> i]
              ELSE WaitLoop(i + 1, readyAt, errAt)

\* ChatGPTAutomation.chat: what it returns after send_message and
\* wait_for_response.
ChatResult(sent, ready, resp) ==
    IF ~sent THEN FailedToSend ELSE IF ~ready THEN TimedOut ELSE resp

\* ChatGPTAutomation.wait_for_response on the manager's handle, after a
\* message was sent.
WaitForResponseCall ==
    /\ chatgpt \in {"Live", "Dead"}
    /\ \E readyAt \in 0..MaxWaitReady : \E errAt \in {0, 1, 2} :
        /\ chatgpt = "Dead" => errAt = 1
        /\ LET w == WaitLoop(1, readyAt, errAt) IN
           last' = Last([op |-> "wait_for_response",
                         ret |-> IF w.ok THEN "True" ELSE "False",
                         polls |-> w.polls,
                         waited |-> w.polls * WaitStep,
                         chat |-> ChatResult(TRUE, w.ok, "resp")])
    /\ UNCHANGED <<chatgpt, browser_started, current_conversation, daemon, pidFile,
                   descriptor, pageUrl, files, now, closed>>

\* for i in range(60) of _ensure_logged_in
LoginPolls == 60

\* The login wait of _ensure_logged_in from second i on: the login button
\* is gone from second goneAt on (0: never).
RECURSIVE LoginLoop(_, _)
LoginLoop(i, goneAt) ==
    IF i > LoginPolls
    THEN [ok |-> FALSE, polls |-> i - 1]
    ELSE IF goneAt # 0 /\ i >= goneAt
         THEN [ok |-> TRUE, polls |-> i]
         ELSE LoginLoop(i + 1, goneAt)

\* ChatManager._ensure_logged_in on a live handle (its _ensure_browser is
\* then a no-op): no login button, or the wait for it to go.
EnsureLoggedInCall ==
    /\ chatgpt = "Live"
    /\ \E button \in BOOLEAN : \E goneAt \in 0..MaxWaitReady :
        LET w == IF button THEN LoginLoop(1, goneAt) ELSE [ok |-> TRUE, polls |-> 0] IN
        last' = Last([op |-> "ensure_logged_in",
                      ret |-> IF w.ok THEN "True" ELSE "False",
                      polls |-> w.polls])
    /\ UNCHANGED <<chatgpt, browser_started, current_conversation, daemon, pidFile,
                   descriptor, pageUrl, files, now, closed>>

\* The conversation send works on: start_conversation() first when there is none.
SendConv == IF current_conversation = NoConv THEN NewConversation(None, now)
            ELSE current_conversation

\* send, lines 244-259: the user Message, then the assistant Message with what
\* chat returned, then updated_at.
AppendExchange(c, message, response, t) ==
    [c EXCEPT !.messages = Append(Append(@, Message("user", message, t)),
                                  Message("assistant", response, t)),
              !.updated_at = t]

\* ChatManager._restart_browser: stop (its exception swallowed), drop the
\* handle, _ensure_browser.
RestartBrowser(dm, pf, url, e) == EnsureBrowser(None, FALSE, dm, pf, url, e)

\* A stop() that deletes the descriptor file.
StopDescriptorCleared(d) == "none"
\* BrowserAutomation.stop closes the context, the browser connection and
\* playwright, and leaves the descriptor file alone.
StopDescriptor(d) == d

\* ChatManager._restart_browser, called on its own
RestartBrowserCall ==
    \E e \in ConnChoices(None, daemon) :
        LET r == RestartBrowser(daemon, pidFile, pageUrl, e) IN
        /\ SetConn(r)
        /\ pageUrl' = r.pageUrl
        /\ descriptor' = IF chatgpt # None THEN StopDescriptor(descriptor) ELSE descriptor
        /\ last' = Last([op |-> "restart_browser", raised |-> r.raised,
                         had |-> chatgpt # None, reachable |-> daemon = "up",
                         spawns |-> r.spawns, attaches |-> r.attaches])
        /\ UNCHANGED <<current_conversation, files, now, closed>>

\* ChatManager._start_daemon, called on its own: the spawn and the polling.
StartDaemonCall ==
    \E readyAt \in 0..MaxReady : \E slow \in {0, 1, PollLimit} :
        LET p == PollLoop(1, IF daemon = "up" THEN 1 ELSE readyAt, slow, 0)
            sp == IF p.ok THEN "up" ELSE IF readyAt # 0 THEN "slow" ELSE "fail"
            sd == StartDaemon(daemon, pidFile, pageUrl, sp)
        IN
        /\ daemon' = sd.daemon
        /\ pidFile' = sd.pidFile
        /\ pageUrl' = sd.pageUrl
        /\ last' = Last([op |-> "start_daemon", ret |-> IF p.ok THEN "True" ELSE "False",
                         reachable |-> daemon = "up", spawns |-> 1,
                         polls |-> p.polls, elapsed |-> p.elapsed])
        /\ UNCHANGED <<chatgpt, browser_started, current_conversation, descriptor,
                       files, now, closed>>

\* The except arm of send after _restart_browser returned: the error string is
\* returned, chat is not called again.
ExceptArm(ret) == [ret |-> "Error", chats |-> 1]

\* ChatManager.send(message)
Send(message) ==
    /\ Len(SendConv.messages) < 2 * MaxExchanges
    /\ \E e \in ConnChoices(chatgpt, daemon) :
        LET c0 == SendConv
            r1 == EnsureBrowser(chatgpt, browser_started, daemon, pidFile, pageUrl, e)
        IN
        IF r1.raised
        THEN \* _ensure_browser raised: the exception leaves send
             /\ SetConn(r1)
             /\ pageUrl' = r1.pageUrl
             /\ current_conversation' = c0
             /\ last' = Last([op |-> "send", raised |-> TRUE, spawns |-> r1.spawns,
                              attaches |-> r1.attaches])
             /\ UNCHANGED <<descriptor, files, now, closed>>
        ELSE \E d \in Deliveries : \E resp \in RespChoices(d) :
             \E th \in ThreadChoices(d, r1.pageUrl) : \E sv \in WriteOutcomes :
             LET ch == Chat(d, resp, th, r1.daemon, r1.pageUrl)
                 c1 == AppendExchange(c0, message, ch.ret, now)
                 \* _auto_save -> export_conversation(save_dir/<id>.json)
                 c2 == UpdateConversationUrl(c1, ch.chatgpt, ch.pageUrl)
                 path == AutoPath(c2.id)
                 users == CountRole(c2, "user") - CountRole(current_conversation, "user")
                 assts == CountRole(c2, "assistant")
                              - CountRole(current_conversation, "assistant")
             IN
             /\ current_conversation' = c2
             /\ files' = [files EXCEPT ![path] = WriteFile(@, ToDict(c2), sv)]
             /\ UNCHANGED <<descriptor, now, closed>>
             /\ IF sv = "ok"
                THEN /\ chatgpt' = ch.chatgpt
                     /\ browser_started' = r1.browser_started
                     /\ daemon' = ch.daemon
                     /\ pidFile' = r1.pidFile
                     /\ pageUrl' = ch.pageUrl
                     /\ last' = Last([op |-> "send", ret |-> ch.ret, users |-> users,
                                      assts |-> assts, chats |-> 1, delivery |-> d,
                                      saved |-> sv,
                                      spawns |-> r1.spawns, attaches |-> r1.attaches])
                ELSE \* the save raised: except arm, _restart_browser, "Error: ..."
                     \E e2 \in ConnChoices(None, ch.daemon) :
                     LET r2 == RestartBrowser(ch.daemon, r1.pidFile, ch.pageUrl, e2)
                         x == ExceptArm(ch.ret)
                     IN
                     /\ SetConn(r2)
                     /\ pageUrl' = r2.pageUrl
                     /\ last' = Last([op |-> "send", ret |-> x.ret, raised |-> r2.raised,
                                      users |-> users, assts |-> assts, chats |-> x.chats,
                                      restarts |-> 1, delivery |-> d, saved |-> sv,
                                      spawns |-> r1.spawns + r2.spawns,
                                      attaches |-> r1.attaches + r2.attaches])

\* An append that drops what the conversation held.
AppendUserReplacing(c, content, t) ==
    [c EXCEPT !.messages = <<Message("user", content, t)>>]

\* send_formatted, lines 282-286: the user Message, appended before the try.
AppendUser(c, content, t) ==
    [c EXCEPT !.messages = Append(@, Message("user", content, t))]

\* send_file, lines 372-378: the assistant Message and updated_at.
AppendAssistant(c, response, t) ==
    [c EXCEPT !.messages = Append(@, Message("assistant", response, t)),
              !.updated_at = t]

\* ChatManager.send_formatted(message).  ChatGPTAutomation and its base class
\* define no get_formatted_response: after a message was sent and answered,
\* line 301 raises AttributeError into the except arm, which restarts the
\* browser and returns the error string.
SendFormatted(message) ==
    /\ Len(SendConv.messages) < 2 * MaxExchanges
    /\ \E e \in ConnChoices(chatgpt, daemon) :
        LET c0 == SendConv
            r1 == EnsureBrowser(chatgpt, browser_started, daemon, pidFile, pageUrl, e)
        IN
        IF r1.raised
        THEN /\ SetConn(r1)
             /\ pageUrl' = r1.pageUrl
             /\ current_conversation' = c0
             /\ last' = Last([op |-> "send_formatted", raised |-> TRUE,
                              spawns |-> r1.spawns, attaches |-> r1.attaches])
             /\ UNCHANGED <<descriptor, files, now, closed>>
        ELSE \E d \in Deliveries : \E th \in ThreadChoices(d, r1.pageUrl) :
             LET ch == Chat(d, "", th, r1.daemon, r1.pageUrl)
                 c1 == AppendUser(c0, message, now)
             IN
             /\ current_conversation' = c1
             /\ UNCHANGED <<descriptor, files, now, closed>>
             /\ IF d = "ok"
                THEN \E e2 \in ConnChoices(None, ch.daemon) :
                     LET r2 == RestartBrowser(ch.daemon, r1.pidFile, ch.pageUrl, e2) IN
                     /\ SetConn(r2)
                     /\ pageUrl' = r2.pageUrl
                     /\ last' = Last([op |-> "send_formatted", ret |-> "Error",
                                      raised |-> r2.raised, users |-> 1, restarts |-> 1,
                                      delivery |-> d,
                                      spawns |-> r1.spawns + r2.spawns,
                                      attaches |-> r1.attaches + r2.attaches])
                ELSE /\ chatgpt' = ch.chatgpt
                     /\ browser_started' = r1.browser_started
                     /\ daemon' = ch.daemon
                     /\ pidFile' = r1.pidFile
                     /\ pageUrl' = ch.pageUrl
                     /\ last' = Last([op |-> "send_formatted", ret |-> ch.ret,
                                      users |-> 1, delivery |-> d,
                                      spawns |-> r1.spawns, attaches |-> r1.attaches])

\* What becomes of the file of send_file: attach_file uploads it, or fails
\* and the file is read and sent as text, or cannot be decoded, or cannot be
\* opened.
Uploads == {"attached", "astext", "binary", "unreadable"}

\* f"[File: {filepath}] {message}".strip()
FileContent(filepath, message) ==
    IF message = "" THEN "[File: " \o filepath \o "]"
    ELSE "[File: " \o filepath \o "] " \o message

FilePaths == {"f.py"}

\* ChatManager.send_file(filepath, message)
SendFile(filepath, message) ==
    /\ Len(SendConv.messages) < 2 * MaxExchanges
    /\ \E e \in ConnChoices(chatgpt, daemon) :
        LET c0 == SendConv
            r1 == EnsureBrowser(chatgpt, browser_started, daemon, pidFile, pageUrl, e)
        IN
        IF r1.raised
        THEN /\ SetConn(r1)
             /\ pageUrl' = r1.pageUrl
             /\ current_conversation' = c0
             /\ last' = Last([op |-> "send_file", raised |-> TRUE,
                              spawns |-> r1.spawns, attaches |-> r1.attaches])
             /\ UNCHANGED <<descriptor, files, now, closed>>
        ELSE \E up \in Uploads :
             LET c1 == AppendUser(c0, FileContent(filepath, message), now) IN
             /\ UNCHANGED <<descriptor, now, closed>>
             /\ IF up \in {"binary", "unreadable"}
                THEN \* the error string is returned, line 355 or the except arm
                     /\ SetConn(r1)
                     /\ pageUrl' = r1.pageUrl
                     /\ current_conversation' = c1
                     /\ files' = files
                     /\ last' = Last([op |-> "send_file", ret |-> "Error", users |-> 1,
                                      fail |-> up,
                                      spawns |-> r1.spawns, attaches |-> r1.attaches])
                ELSE \E d \in (IF up = "attached" THEN {"ok"} ELSE Deliveries) :
                     \E resp \in RespChoices(d) :
                     \E th \in ThreadChoices(d, r1.pageUrl) : \E sv \in WriteOutcomes :
                     LET ch == Chat(d, resp, th, r1.daemon, r1.pageUrl)
                         c2 == AppendAssistant(c1, ch.ret, now)
                         \* _auto_save -> export_conversation(save_dir/<id>.json)
                         c3 == UpdateConversationUrl(c2, ch.chatgpt, ch.pageUrl)
                     IN
                     /\ chatgpt' = ch.chatgpt
                     /\ browser_started' = r1.browser_started
                     /\ daemon' = ch.daemon
                     /\ pidFile' = r1.pidFile
                     /\ pageUrl' = ch.pageUrl
                     /\ current_conversation' = c3
                     /\ files' = [files EXCEPT ![AutoPath(c3.id)] = WriteFile(@, ToDict(c3), sv)]
                     /\ last' = Last([op |-> "send_file",
                                      ret |-> IF sv = "ok" THEN ch.ret ELSE "Error",
                                      users |-> 1, assts |-> 1, chats |-> 1,
                                      delivery |-> d, saved |-> sv,
                                      spawns |-> r1.spawns, attaches |-> r1.attaches])

\* ChatManager.export_conversation(filepath)
ExportConversation(path) ==
    IF current_conversation = NoConv
    THEN /\ last' = Last([op |-> "export", ret |-> "No conversation to export", arg |-> path])
         /\ UNCHANGED <<chatgpt, browser_started, current_conversation, daemon, pidFile,
                        descriptor, pageUrl, files, now, closed>>
    ELSE \E sv \in WriteOutcomes :
         LET c == UpdateConversationUrl(current_conversation, chatgpt, pageUrl) IN
         /\ current_conversation' = c
         /\ files' = [files EXCEPT ![path] = WriteFile(@, ToDict(c), sv)]
         /\ last' = Last([op |-> "export", ret |-> IF sv = "ok" THEN "filepath" ELSE "",
                          raised |-> sv # "ok", arg |-> path])
         /\ UNCHANGED <<chatgpt, browser_started, daemon, pidFile, descriptor, pageUrl,
                        now, closed>>

\* What json.load and the required-fields check of load_conversation accept.
Loadable(f) ==
    /\ f.kind = "json"
    /\ RequiredFields \subseteq DOMAIN f.data
    /\ \A i \in 1..Len(f.data.messages) : IsObject(f.data.messages[i])

\* ChatManager.open_conversation_by_url(url) on conversation c: the result of
\* _ensure_browser and goto, and the conversation afterwards.
OpenByUrl(c, url, e, gotoOk) ==
    LET r == EnsureBrowser(chatgpt, browser_started, daemon, pidFile, pageUrl, e)
        ok == ~r.raised /\ gotoOk
    IN [conn |-> r,
        pageUrl |-> IF ok THEN url ELSE r.pageUrl,
        conv |-> IF ok /\ c # NoConv THEN [c EXCEPT !.url = url] ELSE c,
        ok |-> ok]

OpenConversationByUrl(url) ==
    \E e \in ConnChoices(chatgpt, daemon) : \E gotoOk \in BOOLEAN :
        LET o == OpenByUrl(current_conversation, url, e, gotoOk) IN
        /\ SetConn(o.conn)
        /\ pageUrl' = o.pageUrl
        /\ current_conversation' = o.conv
        /\ last' = Last([op |-> "open_conversation_by_url",
                         ret |-> IF o.ok THEN "True" ELSE "False",
                         spawns |-> o.conn.spawns, attaches |-> o.conn.attaches,
                         arg |-> url])
        /\ UNCHANGED <<descriptor, files, now, closed>>

\* Why load_conversation cannot load file f: open raises ("notfound"),
\* json.load raises JSONDecodeError ("invalidjson"), a required field is
\* absent ("missing"), m.get raises on a message entry that is no object
\* ("badmessage"); "na" when it can.
LoadFailKind(f) ==
    CASE f.kind = "none" -> "notfound"
      [] f.kind = "partial" -> "invalidjson"
      [] f.kind = "json" /\ ~(RequiredFields \subseteq DOMAIN f.data) -> "missing"
      [] ~Loadable(f) -> "badmessage"
      [] OTHER -> "na"

\* A failed load that drops the conversation the manager held.
FailedLoadConvDropped(c) == NoConv
\* The conversation after a failed load: every failure comes before the
\* assignment of line 491, the manager keeps what it held.
FailedLoadConv(c) == c

\* A load that reports the kind of its failure.
LoadFailureKind(kind) == kind
\* What load_conversation returns on a failure of that kind: each arm logs
\* its own message and returns False.
LoadFailure(kind) == "False"

\* A load that reports what open_conversation_by_url returned.
LoadSuccessOpened(opened) == opened
\* What load_conversation returns once the Conversation is built, whatever
\* open_conversation_by_url returned.
LoadSuccess(opened) == "True"

\* ChatManager.load_conversation(filepath)
LoadConversation(path) ==
    IF ~Loadable(files[path])
    THEN /\ last' = Last([op |-> "load", ret |-> LoadFailure(LoadFailKind(files[path])),
                          fail |-> LoadFailKind(files[path]), arg |-> path,
                          prev |-> Prev])
         /\ current_conversation' = FailedLoadConv(current_conversation)
         /\ UNCHANGED <<chatgpt, browser_started, daemon, pidFile,
                        descriptor, pageUrl, files, now, closed>>
    ELSE LET c == FromDict(files[path].data) IN
         IF c.url = None
         THEN /\ current_conversation' = c
              /\ last' = Last([op |-> "load", ret |-> LoadSuccess("na"), arg |-> path,
                               prev |-> Prev])
              /\ UNCHANGED <<chatgpt, browser_started, daemon, pidFile, descriptor,
                             pageUrl, files, now, closed>>
         ELSE \E e \in ConnChoices(chatgpt, daemon) : \E gotoOk \in BOOLEAN :
              LET o == OpenByUrl(c, c.url, e, gotoOk)
                  opened == IF o.ok THEN "True" ELSE "False"
              IN
              /\ SetConn(o.conn)
              /\ pageUrl' = o.pageUrl
              /\ current_conversation' = o.conv
              /\ last' = Last([op |-> "load", ret |-> LoadSuccess(opened), arg |-> path,
                               prev |-> Prev, opened |-> opened,
                               raised |-> FALSE,
                               spawns |-> o.conn.spawns, attaches |-> o.conn.attaches])
              /\ UNCHANGED <<descriptor, files, now, closed>>

\* ChatManager.new_chat
NewChat ==
    \E e \in ConnChoices(chatgpt, daemon) : \E clicked \in BOOLEAN :
        LET r == EnsureBrowser(chatgpt, browser_started, daemon, pidFile, pageUrl, e) IN
        /\ SetConn(r)
        /\ pageUrl' = IF ~r.raised /\ clicked THEN "home" ELSE r.pageUrl
        /\ current_conversation' = IF r.raised THEN current_conversation
                                   ELSE NewConversation(None, now)
        /\ last' = Last([op |-> "new_chat", raised |-> r.raised,
                         spawns |-> r.spawns, attaches |-> r.attaches])
        /\ UNCHANGED <<descriptor, files, now, closed>>

\* ------------------------------------------------- two manager processes
\* Two ChatManager objects in two processes connect to the one endpoint
\* 127.0.0.1:9222.  _ensure_browser of manager m, one await at a time:
\* "idle" (no handle), "spawning" (start() raised, the except arm is about
\* to call _start_daemon), "polling" (Popen done, the probe loop runs),
\* "reattach" (_start_daemon returned True), "connected", "failed".
\* What a step leaves alone, and what `last` records of it.
ManagerStep(op, m) ==
    /\ last' = Last([op |-> op, arg |-> <<m>>])
    /\ UNCHANGED <<chatgpt, browser_started, current_conversation, descriptor,
                   files, now, closed>>
    /\ UNCHANGED <<transports, delivered, selection_state>>

\* _ensure_browser, lines 158-165: a new handle and start(), which connects
\* to a reachable endpoint and raises RuntimeError on any other.
Attach(m) ==
    /\ managers[m] = "idle"
    /\ managers' = [managers EXCEPT ![m] = IF daemon = "up" THEN "connected"
                                            ELSE "spawning"]
    /\ pageUrl' = IF daemon = "up" /\ ~OnChatGPT(pageUrl) THEN "home" ELSE pageUrl
    /\ UNCHANGED <<daemon, pidFile, spawned>>
    /\ ManagerStep("attach", m)

\* _start_daemon, lines 133-143: the runner script is written and Popen
\* starts it, whatever runs already.  A process started beside a daemon
\* that holds the port and the profile does not become the daemon.
Spawn(m) ==
    /\ managers[m] = "spawning"
    /\ spawned < MaxSpawned
    /\ spawned' = spawned + 1
    /\ daemon' = IF daemon = "down" THEN "starting" ELSE daemon
    /\ managers' = [managers EXCEPT ![m] = "polling"]
    /\ UNCHANGED <<pidFile, pageUrl>>
    /\ ManagerStep("spawn", m)

\* _start_daemon, lines 145-154: a probe answers and it returns True, or the
\* twenty probes pass and it returns False, which _ensure_browser raises.
Poll(m) ==
    /\ managers[m] = "polling"
    /\ \/ daemon = "up" /\ managers' = [managers EXCEPT ![m] = "reattach"]
       \/ daemon # "up" /\ managers' = [managers EXCEPT ![m] = "failed"]
    /\ UNCHANGED <<daemon, pidFile, pageUrl, spawned>>
    /\ ManagerStep("poll", m)

\* _ensure_browser, line 169: the second start()
Reattach(m) ==
    /\ managers[m] = "reattach"
    /\ managers' = [managers EXCEPT ![m] = IF daemon = "up" THEN "connected"
                                            ELSE "failed"]
    /\ pageUrl' = IF daemon = "up" /\ ~OnChatGPT(pageUrl) THEN "home" ELSE pageUrl
    /\ UNCHANGED <<daemon, pidFile, spawned>>
    /\ ManagerStep("reattach", m)

\* close() of manager m with the browser kept open; it needs the browser
\* again later.
Release(m) ==
    /\ managers[m] \in {"connected", "failed"}
    /\ managers' = [managers EXCEPT ![m] = "idle"]
    /\ UNCHANGED <<daemon, pidFile, pageUrl, spawned>>
    /\ ManagerStep("release", m)

\* ------------------------------------------------------ delivery threads
\* The thread a delivery put the message into: chat sent it on the page at
\* url (deliveries "ok" and "timeout"), or sent nothing.
DeliveredInto(d, url) == IF d \in {"ok", "timeout"} THEN {url} ELSE {}

\* ChatManager.send and the threads its conversation's messages went into;
\* a send without a conversation starts one.
SendShared(message) ==
    /\ Len(SendConv.messages) <= MaxHeld
    /\ Send(message)
    /\ delivered' = (IF current_conversation = NoConv THEN {} ELSE delivered)
                        \cup DeliveredInto(last'.delivery, pageUrl')
    /\ UNCHANGED <<transports, selection_state, managers, spawned>>

\* ------------------------------------------------------- playwright drivers
\* BrowserAutomation.start begins with async_playwright().start() (base.py:53):
\* every start() of an _ensure_browser starts one driver, and nothing in
\* _ensure_browser stops one.
Started(attaches) == attaches

\* BrowserAutomation.stop on handle h: playwright.stop() is its last call,
\* reached unless context.close() or browser.close() raised; it stops the
\* driver the handle refers to.
Stopped(h, stopRaised) == IF h # None /\ ~stopRaised THEN 1 ELSE 0

\* ChatManager._ensure_browser and the drivers it leaves running
EnsureBrowserTracked ==
    /\ transports < MaxTransports
    /\ EnsureBrowserCall
    /\ transports' = transports + Started(last'.attaches)
    /\ UNCHANGED <<delivered, selection_state, managers, spawned>>

\* ChatManager._restart_browser and the drivers it leaves running
RestartBrowserTracked ==
    /\ transports < MaxTransports
    /\ RestartBrowserCall
    /\ \E stopRaised \in StopChoices :
        transports' = transports - Stopped(chatgpt, stopRaised) + Started(last'.attaches)
    /\ UNCHANGED <<delivered, selection_state, managers, spawned>>

\* ChatManager.close(keep_browser_open) and the drivers it leaves running
CloseTracked(keep) ==
    /\ \E stopRaised \in StopChoices :
        /\ CloseEffect(keep, stopRaised)
        /\ transports' = transports - Stopped(chatgpt, stopRaised)
    /\ last' = Last([op |-> "close", keep |-> keep, had |-> chatgpt # None])
    /\ UNCHANGED <<delivered, selection_state, managers, spawned>>

\* --------------------------------------- PerplexityConversations selection
\* The conversation ids a caller selects among.
SelIds == {"a", "b", "c"}

\* conversation_id in self._selection_state.selected_ids
Selected(s, id) == \E i \in 1..Len(s.selected_ids) : s.selected_ids[i] = id

\* list.remove(x): the list without the first x.
Remove(ids, id) ==
    LET i == CHOOSE i \in 1..Len(ids) :
                 ids[i] = id /\ \A j \in 1..(i - 1) : ids[j] # id
    IN SubSeq(ids, 1, i - 1) \o SubSeq(ids, i + 1, Len(ids))

\* A select that appends without looking.
SelectAgain(s, id) ==
    [selected_ids |-> Append(s.selected_ids, id), selection_mode |-> TRUE]

\* select_conversation(conversation_id) on selection state s
Select(s, id) ==
    IF ~Selected(s, id)
    THEN [selected_ids |-> Append(s.selected_ids, id), selection_mode |-> TRUE]
    ELSE s

\* deselect_conversation(conversation_id) on selection state s
Deselect(s, id) ==
    LET ids == IF Selected(s, id) THEN Remove(s.selected_ids, id) ELSE s.selected_ids IN
    [selected_ids |-> ids,
     selection_mode |-> IF ids = <<>> THEN FALSE ELSE s.selection_mode]

\* toggle_selection(conversation_id) on selection state s
Toggle(s, id) == IF Selected(s, id) THEN Deselect(s, id) ELSE Select(s, id)

\* What a selection call leaves alone, and what `last` records of it: the
\* operation, the id, the selection before the call and the call before it.
SelectionCall(op, id) ==
    /\ last' = Last([op |-> op, arg |-> <<id>>, before |-> selection_state,
                     prev |-> Prev])
    /\ UNCHANGED mgr
    /\ UNCHANGED <<transports, delivered, managers, spawned>>

\* PerplexityConversations.clear_selection
ClearSelection ==
    /\ selection_state' = SelectionState
    /\ SelectionCall("clear_selection", "")

\* PerplexityConversations.select_conversation
SelectConversation(id) ==
    /\ selection_state' = Select(selection_state, id)
    /\ SelectionCall("select_conversation", id)

\* PerplexityConversations.deselect_conversation
DeselectConversation(id) ==
    /\ selection_state' = Deselect(selection_state, id)
    /\ SelectionCall("deselect_conversation", id)

\* PerplexityConversations.toggle_selection
ToggleSelection(id) ==
    /\ selection_state' = Toggle(selection_state, id)
    /\ SelectionCall("toggle_selection", id)

\* ------------------------------------------------------------- environment
Tick ==
    /\ now < MaxTime
    /\ now' = now + 1
    /\ last' = Last([op |-> "env"])
    /\ UNCHANGED <<chatgpt, browser_started, current_conversation, daemon, pidFile,
                   descriptor, pageUrl, files, closed>>

\* The daemon process dies (crash, kill, the user closes the browser).
DaemonDies ==
    /\ daemon # "down"
    /\ daemon' = "down"
    /\ chatgpt' = IF chatgpt = "Live" THEN "Dead" ELSE chatgpt
    /\ last' = Last([op |-> "env"])
    /\ UNCHANGED <<browser_started, current_conversation, pidFile, descriptor,
                   pageUrl, files, now, closed>>

\* The transport or the page of the handle is lost while the daemon lives on.
PageDrops ==
    /\ chatgpt = "Live"
    /\ chatgpt' = "Dead"
    /\ last' = Last([op |-> "env"])
    /\ UNCHANGED <<browser_started, current_conversation, daemon, pidFile, descriptor,
                   pageUrl, files, now, closed>>

\* Another ChatManager on the same save directory (config.save_dir) saves the
\* conversation it started at second t, after its first exchange.
OtherManagerSaves(t) ==
    /\ t <= now
    /\ LET c == AppendExchange(NewConversation(<<"other">>, t), "hi", "resp", now) IN
       files' = [files EXCEPT ![AutoPath(c.id)] = WriteFile(@, ToDict(c), "ok")]
    /\ last' = Last([op |-> "env_save"])
    /\ UNCHANGED <<chatgpt, browser_started, current_conversation, daemon, pidFile,
                   descriptor, pageUrl, now, closed>>

\* Another client of the shared daemon, or the user, navigates the page.
OtherNavigates(url) ==
    /\ daemon = "up"
    /\ pageUrl # url
    /\ pageUrl' = url
    /\ last' = Last([op |-> "env"])
    /\ UNCHANGED <<chatgpt, browser_started, current_conversation, daemon, pidFile,
                   descriptor, files, now, closed>>

\* A daemon that was slow to start finishes starting.
DaemonReady ==
    /\ daemon = "starting"
    /\ daemon' = "up"
    /\ pidFile' = TRUE
    /\ pageUrl' = "home"
    /\ last' = Last([op |-> "env"])
    /\ UNCHANGED <<chatgpt, browser_started, current_conversation, descriptor,
                   files, now, closed>>

Next ==
    \/ \E title \in Titles : StartConversation(title) /\ UNCHANGED ext
    \/ EnsureBrowserCall /\ UNCHANGED ext
    \/ RestartBrowserCall /\ UNCHANGED ext
    \/ StartDaemonCall /\ UNCHANGED ext
    \/ SendMessageCall /\ UNCHANGED ext
    \/ WaitForResponseCall /\ UNCHANGED ext
    \/ EnsureLoggedInCall /\ UNCHANGED ext
    \/ \E message \in UserMsgs : Send(message) /\ UNCHANGED ext
    \/ \E path \in ExportPaths : ExportConversation(path) /\ UNCHANGED ext
    \/ \E path \in Paths : LoadConversation(path) /\ UNCHANGED ext
    \/ \E url \in Threads : OpenConversationByUrl(url) /\ UNCHANGED ext
    \/ NewChat /\ UNCHANGED ext
    \/ \E keep \in BOOLEAN : Close(keep) /\ UNCHANGED ext
    \/ CloseBrowser /\ UNCHANGED ext
    \/ AExit /\ UNCHANGED ext
    \/ Tick /\ UNCHANGED ext
    \/ DaemonDies /\ UNCHANGED ext
    \/ PageDrops /\ UNCHANGED ext
    \/ \E url \in Urls : OtherNavigates(url) /\ UNCHANGED ext
    \/ DaemonReady /\ UNCHANGED ext

\* Every operation of the manager against every move of the environment.
Spec == Init /\ [][Next]_vars

\* The connection lifecycle: the operations that connect and close, against the
\* daemon's and the page's faults.
NextLifecycle ==
    \/ EnsureBrowserCall /\ UNCHANGED ext
    \/ \E url \in Threads : OpenConversationByUrl(url) /\ UNCHANGED ext
    \/ NewChat /\ UNCHANGED ext
    \/ \E keep \in BOOLEAN : Close(keep) /\ UNCHANGED ext
    \/ CloseBrowser /\ UNCHANGED ext
    \/ AExit /\ UNCHANGED ext
    \/ DaemonDies /\ UNCHANGED ext
    \/ PageDrops /\ UNCHANGED ext
    \/ DaemonReady /\ UNCHANGED ext

SpecLifecycle == Init /\ [][NextLifecycle]_vars

\* Sending: send on the current conversation, against the daemon's and the
\* page's faults and the save's failures.
NextSend ==
    \/ StartConversation(None) /\ UNCHANGED ext
    \/ \E message \in UserMsgs : Send(message) /\ UNCHANGED ext
    \/ DaemonDies /\ UNCHANGED ext
    \/ PageDrops /\ UNCHANGED ext
    \/ DaemonReady /\ UNCHANGED ext

SpecSend == Init /\ [][NextSend]_vars

\* Export and load.  The manager holds a conversation that earlier calls of
\* start_conversation, send and send_formatted built: a title given or
\* generated, messages of either role, a thread url or none.
SampleMessages ==
    {Message("user", "hi", 0), Message("assistant", "resp", 1),
     Message("assistant", FailedToSend, 0)}

RECURSIVE SeqsUpTo(_, _)
SeqsUpTo(S, n) ==
    IF n = 0 THEN {<<>>}
    ELSE SeqsUpTo(S, n - 1) \cup
         {Append(q, x) : q \in {r \in SeqsUpTo(S, n - 1) : Len(r) = n - 1}, x \in S}

ConvSamples ==
    {[NewConversation(title, 0) EXCEPT !.messages = ms, !.updated_at = u, !.url = url] :
        title \in Titles, ms \in SeqsUpTo(SampleMessages, MaxLen),
        u \in {0, MaxTime}, url \in {None, "c1"}}

\* A conversation file without its title.
ForeignFile ==
    JsonFile([k \in RequiredFields \ {"title"} |->
                 ToDict(NewConversation(None, 0))[k]])

\* A conversation file whose message entry is a string.
BadMessageFile ==
    JsonFile([ToDict(NewConversation(None, 0)) EXCEPT !.messages = <<JVal("hello")>>])

\* The connection the manager holds while it does: none yet, or a live one.
ConnSamples ==
    {<<None, FALSE, "down", FALSE, "blank">>, <<None, FALSE, "up", TRUE, "home">>,
     <<"Live", TRUE, "up", TRUE, "home">>, <<"Live", TRUE, "up", TRUE, "c2">>}

InitStore ==
    /\ InitExt
    /\ current_conversation \in ConvSamples
    /\ \E k \in ConnSamples :
        /\ chatgpt = k[1]
        /\ browser_started = k[2]
        /\ daemon = k[3]
        /\ pidFile = k[4]
        /\ pageUrl = k[5]
    /\ descriptor = "none"
    /\ files = [p \in Paths |-> IF p = <<"old.json">> THEN ForeignFile
                               ELSE IF p = <<"bad.json">> THEN BadMessageFile
                               ELSE NoFile]
    /\ now = MaxTime
    /\ closed = FALSE
    /\ last = LastBase

NextStore ==
    \/ \E path \in ExportPaths : ExportConversation(path) /\ UNCHANGED ext
    \/ \E path \in Paths : LoadConversation(path) /\ UNCHANGED ext
    \/ \E url \in Threads : OtherNavigates(url) /\ UNCHANGED ext
    \/ PageDrops /\ UNCHANGED ext

SpecStore == InitStore /\ [][NextStore]_vars

\* Connecting and reconnecting, on a manager that holds no conversation or one
\* that an exchange on thread c1 built.
SampleConv ==
    [NewConversation(None, 0) EXCEPT
        !.messages = <<Message("user", "hi", 0), Message("assistant", "resp", 0)>>,
        !.url = "c1"]

InitConnect ==
    /\ InitExt
    /\ chatgpt = None
    /\ browser_started = FALSE
    /\ current_conversation \in {NoConv, SampleConv}
    /\ daemon = "down"
    /\ pidFile = FALSE
    /\ descriptor \in {"none", WsEndpoint}
    /\ pageUrl = "blank"
    /\ files = [p \in Paths |-> NoFile]
    /\ now = 0
    /\ closed = FALSE
    /\ last = LastBase

NextConnect ==
    \/ EnsureBrowserCall /\ UNCHANGED ext
    \/ RestartBrowserCall /\ UNCHANGED ext
    \/ \E keep \in BOOLEAN : Close(keep) /\ UNCHANGED ext
    \/ \E url \in Urls : OtherNavigates(url) /\ UNCHANGED ext
    \/ DaemonDies /\ UNCHANGED ext
    \/ PageDrops /\ UNCHANGED ext
    \/ DaemonReady /\ UNCHANGED ext

SpecConnect == InitConnect /\ [][NextConnect]_vars

\* Launching: _start_daemon against daemons that come up early, late or never.
NextLaunch ==
    \/ StartDaemonCall /\ UNCHANGED ext
    \/ EnsureBrowserCall /\ UNCHANGED ext
    \/ DaemonDies /\ UNCHANGED ext
    \/ DaemonReady /\ UNCHANGED ext

SpecLaunch == Init /\ [][NextLaunch]_vars

\* The loops of a delivery: connecting, sending, waiting for the response and
\* for the login, against a collaborator that fails as it likes.
NextRetry ==
    \/ EnsureBrowserCall /\ UNCHANGED ext
    \/ SendMessageCall /\ UNCHANGED ext
    \/ WaitForResponseCall /\ UNCHANGED ext
    \/ EnsureLoggedInCall /\ UNCHANGED ext
    \/ DaemonDies /\ UNCHANGED ext
    \/ PageDrops /\ UNCHANGED ext
    \/ DaemonReady /\ UNCHANGED ext

SpecRetry == Init /\ [][NextRetry]_vars

\* A live session: the three sends (the first of them starts the
\* conversation), export, reconnect and close on the current conversation.
NextAppend ==
    \/ \E message \in UserMsgs : Len(SendConv.messages) <= MaxHeld /\ Send(message) /\ UNCHANGED ext
    \/ \E message \in UserMsgs : Len(SendConv.messages) <= MaxHeld /\ SendFormatted(message) /\ UNCHANGED ext
    \/ \E filepath \in FilePaths : Len(SendConv.messages) <= MaxHeld /\ SendFile(filepath, "") /\ UNCHANGED ext
    \/ \E path \in ExportPaths : ExportConversation(path) /\ UNCHANGED ext
    \/ RestartBrowserCall /\ UNCHANGED ext
    \/ \E keep \in BOOLEAN : Close(keep) /\ UNCHANGED ext

SpecAppend == Init /\ [][NextAppend]_vars

\* Conversation ids and the files named by them: conversations started by
\* this manager and by another one on the same save directory, as the clock
\* advances.
NextIds ==
    \/ StartConversation(None) /\ UNCHANGED ext
    \/ \E message \in UserMsgs : Len(SendConv.messages) <= MaxHeld /\ Send(message) /\ UNCHANGED ext
    \/ \E t \in 0..MaxTime : OtherManagerSaves(t) /\ UNCHANGED ext
    \/ Tick /\ UNCHANGED ext

SpecIds == Init /\ [][NextIds]_vars

\* The selection of a PerplexityConversations object under any sequence of
\* its four selection calls.
NextSelection ==
    \/ ClearSelection
    \/ \E id \in SelIds : SelectConversation(id)
    \/ \E id \in SelIds : DeselectConversation(id)
    \/ \E id \in SelIds : ToggleSelection(id)

SpecSelection == Init /\ [][NextSelection]_vars

\* The drivers of a manager that connects, reconnects and closes while the
\* daemon and the page fail.
NextTransport ==
    \/ EnsureBrowserTracked
    \/ RestartBrowserTracked
    \/ \E keep \in BOOLEAN : CloseTracked(keep)
    \/ DaemonDies /\ UNCHANGED ext
    \/ PageDrops /\ UNCHANGED ext
    \/ DaemonReady /\ UNCHANGED ext

SpecTransport == Init /\ [][NextTransport]_vars

\* A manager that sends and exports on a daemon whose single page another
\* manager navigates.
NextShared ==
    \/ \E message \in UserMsgs : SendShared(message)
    \/ \E path \in ExportPaths : ExportConversation(path) /\ UNCHANGED ext
    \/ \E url \in Threads : OtherNavigates(url) /\ UNCHANGED ext

SpecShared == Init /\ [][NextShared]_vars

\* Two managers connecting, their steps interleaved, while the daemon
\* starts, answers and dies.
NextTwoManagers ==
    \/ \E m \in Managers : Attach(m)
    \/ \E m \in Managers : Spawn(m)
    \/ \E m \in Managers : Poll(m)
    \/ \E m \in Managers : Reattach(m)
    \/ \E m \in Managers : Release(m)
    \/ DaemonReady /\ UNCHANGED ext
    \/ DaemonDies /\ UNCHANGED ext

SpecTwoManagers == Init /\ [][NextTwoManagers]_vars

\* -------------------------------------------------------------- properties
\* C1: every call of send appends exactly one user Message and at most one
\* assistant Message; when delivery fails (the message could not be sent, the
\* response timed out, the session died) it appends exactly one user Message
\* and no assistant Message.
C1_OneUserAtMostOneAssistant ==
    last.op = "send" =>
        /\ last.users = 1
        /\ last.assts <= 1
        /\ (last.delivery \in FailedDeliveries => last.assts = 0)

\* C1: a send whose response timed out has returned, and the conversation
\* ends with an assistant Message holding the failure text.
C1_FailureTextAppended ==
    /\ last.op = "send"
    /\ last.delivery = "timeout"
    /\ last.assts = 1
    /\ current_conversation.messages[Len(current_conversation.messages)]
           = Message("assistant", TimedOut, now)

\* C2: a send during which the session died has returned without a restart.
C2_DiedMidSend ==
    /\ last.op = "send"
    /\ last.delivery = "died"
    /\ last.restarts = 0
    /\ last.ret = FailedToSend

\* C2: when the session dies during delivery, send reconnects exactly once
\* and calls chat exactly once more.
C2_OneReconnectOneRetry ==
    last.op = "send" /\ last.delivery = "died" =>
        last.restarts = 1 /\ last.chats = 2

\* The number of messages of conversation c that its file in the save
\* directory holds.
PersistedLen(c) ==
    LET f == files[AutoPath(c.id)] IN
    IF f.kind = "json" /\ Dec(f.data.id) = c.id THEN Len(f.data.messages) ELSE 0

\* C3: at any moment the persisted record of the current conversation is
\* missing at most the messages of one exchange, and once the conversation
\* holds more than one exchange the record is never empty.
C3_AtMostOneExchangeMissing ==
    current_conversation # NoConv =>
        LET n == Len(current_conversation.messages) IN
        /\ n - PersistedLen(current_conversation) <= 2
        /\ (n > 2 => PersistedLen(current_conversation) > 0)

\* C3: the first exchange was saved, and the save of the second left a
\* truncated file: nothing of the conversation is persisted.
C3_SavedConversationLost ==
    /\ last.op = "send"
    /\ last.saved = "partial"
    /\ current_conversation # NoConv
    /\ Len(current_conversation.messages) = 4
    /\ PersistedLen(current_conversation) = 0

\* C4: a soft close leaves the descriptor file as it was; a hard close
\* (close(False), close_browser) leaves no descriptor file, in whatever state
\* the manager was.
C4_SoftKeepsHardDeletes ==
    [][last'.op \in CloseOps =>
          IF last'.keep THEN descriptor' = descriptor ELSE descriptor' = "none"]_vars

\* C4: a hard close on a manager that never connected has returned and the
\* descriptor file is still there.
C4_DescriptorSurvivesHardClose ==
    /\ last.op = "close_browser"
    /\ ~last.had
    /\ descriptor = WsEndpoint

C6_HardCloseTerminatesDaemon ==
    last.op \in CloseOps /\ ~last.keep => daemon = "down" /\ ~pidFile

\* C6: close(False) on a connected manager has returned, stop() did not
\* raise, and the daemon is running with its PID file in place.
C6_DaemonSurvivesHardClose ==
    /\ last.op = "close"
    /\ ~last.keep
    /\ last.had
    /\ descriptor = "none"
    /\ daemon = "up"
    /\ pidFile

\* C7: once close() has returned the manager never holds a handle again.
C7_ClosedIsTerminal == closed => chatgpt = None

\* C7: new_chat after close() has returned with a live handle.
C7_ReconnectedAfterClose ==
    /\ closed
    /\ last.op = "new_chat"
    /\ chatgpt = "Live"
    /\ browser_started

\* C8: _ensure_browser called while the endpoint is reachable spawns no
\* process.
C8_NoSpawnWhenReachable ==
    last.op = "ensure_browser" /\ last.reachable => last.spawns = 0

\* C8: _ensure_browser was called with the endpoint reachable, its first
\* attach failed, and it has spawned a daemon process.
C8_SpawnedWhileReachable ==
    /\ last.op = "ensure_browser"
    /\ last.reachable
    /\ last.spawns = 1
    /\ last.attaches = 2

\* C9: when _ensure_browser had to spawn the daemon and returned without an
\* exception, the descriptor file holds the endpoint.
C9_DescriptorWrittenAfterSpawn ==
    last.op = "ensure_browser" /\ ~last.reachable /\ last.spawns >= 1 /\ ~last.raised =>
        descriptor = WsEndpoint

\* C9: _ensure_browser spawned the daemon and connected, and there is no
\* descriptor file.
C9_ConnectedWithoutDescriptor ==
    /\ last.op = "ensure_browser"
    /\ ~last.reachable
    /\ last.spawns = 1
    /\ ~last.raised
    /\ chatgpt = "Live"
    /\ daemon = "up"
    /\ descriptor = "none"

C12_LoadSucceedsWithoutNavigation ==
    last.op = "load" /\ last.fail = "na" =>
        /\ last.ret = "True"
        /\ ~last.raised
        /\ current_conversation = FromDict(files[last.arg].data)

\* C12: a load of a file with two messages and a url has returned True
\* although the browser could not be connected.
C12_LoadedOffline ==
    /\ last.op = "load"
    /\ last.ret = "True"
    /\ last.opened = "False"
    /\ chatgpt = "NoPage"
    /\ Len(current_conversation.messages) = 2
    /\ current_conversation.url = "c1"

\* C13: a successful export writes the url of the page when the manager has
\* a page and it is on a thread, and the conversation's own url otherwise; a
\* load whose navigation succeeds leaves the page and the conversation on the
\* url of the file, and a load of a file without url does not navigate.
C13_ExportWritesPageLocator ==
    [][/\ (last'.op = "export" /\ last'.ret = "filepath" =>
              files'[last'.arg].data.url =
                  JOpt(IF chatgpt \in {"Live", "Dead"} /\ IsThread(pageUrl)
                       THEN pageUrl ELSE current_conversation.url))
       /\ (last'.op = "load" /\ last'.opened = "True" =>
              /\ pageUrl' = Dec(files[last'.arg].data.url)
              /\ current_conversation'.url = pageUrl')
       /\ (last'.op = "load" /\ last'.fail = "na" /\ last'.opened = "na" =>
              /\ files[last'.arg].data.url = JNull
              /\ pageUrl' = pageUrl)]_vars

\* C13: a file that an export wrote with the url of the page (c2, which no
\* conversation started with) has been loaded and the page is on that url.
C13_ResumedOnExportedLocator ==
    /\ last.op = "load"
    /\ last.opened = "True"
    /\ files[last.arg].data.url = JVal("c2")
    /\ pageUrl = "c2"
    /\ current_conversation.url = "c2"

\* C14: no exception leaves send: a connectivity failure is returned to the
\* caller as a value.
C14_SendNeverRaises == last.op = "send" => ~last.raised

\* C14: the daemon was down and could not be started, and the exception of
\* _ensure_browser has left send before any delivery.
C14_SendRaisedUnavailable ==
    /\ last.op = "send"
    /\ last.raised
    /\ last.chats = 0
    /\ last.spawns = 1
    /\ daemon = "down"

C16_StartConversationFrame ==
    [][last'.op = "start_conversation" =>
          /\ current_conversation'.messages = <<>>
          /\ current_conversation'.url = None
          /\ last'.ret = current_conversation'.id
          /\ UNCHANGED <<chatgpt, browser_started, daemon, pidFile, descriptor,
                         pageUrl, files>>]_vars

\* C16: start_conversation has returned on a connected manager whose
\* earlier conversation was saved.
C16_StartedWhileConnected ==
    /\ last.op = "start_conversation"
    /\ chatgpt = "Live"
    /\ IsThread(pageUrl)
    /\ current_conversation.messages = <<>>
    /\ files[AutoPath(ConvId(0))].kind = "json"

\* C17: no conversation file ever holds a partially written record.
C17_NoPartialRecord == \A p \in Paths : files[p].kind # "partial"

\* C17: an export was interrupted after it had truncated the file, and the
\* load of that file right after it found invalid JSON.
C17_LoadedTruncatedFile ==
    /\ last.op = "load"
    /\ last.fail = "invalidjson"
    /\ last.prev = <<"export", TRUE, last.arg>>
    /\ files[last.arg] = PartialFile

\* C18: a send that finds no live handle attaches again before it calls
\* chat, and when that reconnect fails it does not call chat at all.
C18_HealthCheckBeforeDelivery ==
    [][last'.op = "send" =>
          /\ (chatgpt # "Live" /\ last'.chats >= 1 => last'.attaches >= 1)
          /\ (last'.raised /\ last'.restarts = 0 => last'.chats = 0)]_vars

\* C18: a send on a handle that was no longer alive has attached once to
\* the running daemon and delivered the message.
C18_ReconnectedThenDelivered ==
    /\ last.op = "send"
    /\ last.delivery = "ok"
    /\ last.chats = 1
    /\ last.attaches = 1
    /\ last.spawns = 0
    /\ last.ret = "resp"

\* C19: _ensure_browser and _restart_browser, whether they connect or
\* fail, leave the current conversation and the descriptor file as they
\* were; the descriptor file changes only in a hard close.
C19_ReconnectFrame ==
    [][/\ (last'.op \in {"ensure_browser", "restart_browser"} =>
              /\ current_conversation' = current_conversation
              /\ descriptor' = descriptor)
       /\ (descriptor' # descriptor =>
              last'.op \in CloseOps /\ ~last'.keep)]_vars

\* C19: _restart_browser has dropped a handle and connected a new one; the
\* conversation with its two messages and the descriptor file are there.
C19_RestartedWithConversation ==
    /\ last.op = "restart_browser"
    /\ last.had
    /\ ~last.raised
    /\ last.attaches >= 1
    /\ chatgpt = "Live"
    /\ current_conversation = SampleConv
    /\ descriptor = WsEndpoint

\* C20: when _ensure_browser or _restart_browser raises, the manager
\* holds no handle and is not started, as after construction.
C20_FailedConnectLeavesNoHandle ==
    last.op \in {"ensure_browser", "restart_browser"} /\ last.raised =>
        chatgpt = None /\ ~browser_started

\* C20: _ensure_browser could not start the daemon and has raised; the
\* manager holds the ChatGPTAutomation object it made, which has no page.
C20_FailedConnectKeepsObject ==
    /\ last.op = "ensure_browser"
    /\ last.raised
    /\ last.spawns = 1
    /\ daemon = "down"
    /\ chatgpt = "NoPage"

\* C21: _start_daemon probes the endpoint at most 20 times, returns True at
\* the first probe that is answered, and returns False after the 20th probe
\* when none is; with a sleep of 1 second before each probe and up to 2
\* seconds per probe it is over within 60 seconds, and it takes at least 20
\* seconds to fail.
C21_PollingIsBounded ==
    last.op = "start_daemon" =>
        /\ last.polls >= 1 /\ last.polls <= 20
        /\ (last.ret = "False" => last.polls = 20 /\ last.elapsed >= 20)
        /\ (last.ret = "True" /\ ~last.reachable => daemon = "up")
        /\ last.elapsed >= last.polls
        /\ last.elapsed <= 60

\* C21: every probe ran into its timeout and _start_daemon has returned
\* False after 60 seconds.
C21_GaveUpAfterSixtySeconds ==
    /\ last.op = "start_daemon"
    /\ last.ret = "False"
    /\ last.polls = 20
    /\ last.elapsed = 60

\* C21: _start_daemon stops polling 30 seconds after the spawn when the
\* endpoint does not become reachable.
C21_ThirtySecondTimeout ==
    last.op = "start_daemon" /\ last.ret = "False" => last.elapsed = 30

\* C22: one _ensure_browser attaches at most twice, the second time only
\* after a spawn that made the endpoint reachable, and spawns at most once;
\* one send_message makes at most 3 attempts and returns False after the
\* third that did not send.
C22_RetriesAreBounded ==
    /\ (last.op = "ensure_browser" =>
           /\ last.attaches <= 2
           /\ last.spawns <= 1
           /\ (last.attaches = 2 => last.spawns = 1 /\ daemon = "up"))
    /\ (last.op = "send_message" =>
           /\ last.attempts >= 1 /\ last.attempts <= 3
           /\ (last.ret = "False" => last.attempts = 3))

\* C22: send_message has given up after its third attempt on a handle
\* whose session was dead.
C22_GaveUpAfterThreeAttempts ==
    /\ last.op = "send_message"
    /\ last.ret = "False"
    /\ last.attempts = 3
    /\ chatgpt = "Dead"

IsPrefix(s, t) == Len(s) <= Len(t) /\ SubSeq(t, 1, Len(s)) = s

\* The operations of a live session on the current conversation.
SessionOps == {"send", "send_formatted", "send_file", "export", "restart_browser", "close"}

\* C24: the message sequence is append-only during a live session: while the
\* current conversation keeps its id, send, send_formatted, send_file, export,
\* reconnect and close leave the previous messages as a prefix of the new
\* ones, none of them modified or removed.
C24_AppendOnly ==
    [][(/\ current_conversation # NoConv
        /\ current_conversation' # NoConv
        /\ current_conversation'.id = current_conversation.id
        /\ last'.op \in SessionOps)
       => IsPrefix(current_conversation.messages, current_conversation'.messages)]_vars

C24_FileSentAfterFormatted ==
    /\ last.op = "send_file"
    /\ last.assts = 1
    /\ Len(current_conversation.messages) = 3
    /\ current_conversation.messages[1].content = "hi"
    /\ current_conversation.messages[2].content = "[File: f.py]"
    /\ current_conversation.messages[3].role = "assistant"

\* C25: distinct conversations are stored in distinct files: two
\* start_conversation calls, on one manager or on two managers with the same
\* save directory, never produce the same conversation id, so the auto-save
\* of one conversation never overwrites the persisted file of another.
C25_DistinctIds ==
    [][(last'.op = "start_conversation" /\ current_conversation # NoConv)
       => current_conversation'.id # current_conversation.id]_vars

C25_SameIdAsOtherManager ==
    /\ last.op = "start_conversation"
    /\ current_conversation.messages = <<>>
    /\ files[AutoPath(current_conversation.id)].kind = "json"
    /\ Dec(files[AutoPath(current_conversation.id)].data.title) = <<"other">>
    /\ Dec(files[AutoPath(current_conversation.id)].data.id) = current_conversation.id

\* C26: a failed load_conversation (missing file, invalid JSON, missing
\* required field, malformed message entry) leaves the manager as it was: the
\* same current conversation with the same messages, and no connection to the
\* browser opened.
C26_FailedLoadChangesNothing ==
    [][last'.op = "load" /\ last'.ret = "False" =>
          /\ current_conversation' = current_conversation
          /\ chatgpt' = chatgpt /\ browser_started' = browser_started
          /\ daemon' = daemon /\ pageUrl' = pageUrl
          /\ last'.attaches = 0 /\ last'.spawns = 0]_vars

C26_MalformedEntryRefused ==
    /\ last.op = "load"
    /\ last.fail = "badmessage"
    /\ last.ret = "False"
    /\ chatgpt = None
    /\ Len(current_conversation.messages) = 2

\* The ids of a selection, as a set.
IdSet(s) == {s.selected_ids[i] : i \in 1..Len(s.selected_ids)}

\* C30: after any sequence of select, deselect, toggle and clear calls the
\* list of selected ids holds no duplicate and selection mode is on exactly
\* when the list is non-empty; toggling the same id twice in a row gives back
\* the same set of selected ids and the same selection mode.
C30_SelectionConsistent ==
    /\ [](/\ Cardinality(IdSet(selection_state)) = Len(selection_state.selected_ids)
          /\ selection_state.selection_mode = (selection_state.selected_ids # <<>>))
    /\ [][(/\ last.op = "toggle_selection"
            /\ last'.op = "toggle_selection"
            /\ last'.arg = last.arg)
           => /\ IdSet(selection_state') = IdSet(last.before)
              /\ selection_state'.selection_mode = last.before.selection_mode]_vars

C30_ToggledBackWithOthersSelected ==
    /\ last.op = "toggle_selection"
    /\ last.arg = <<"a">>
    /\ last.prev = <<"toggle_selection", FALSE, <<"a">>>>
    /\ Selected(last.before, "a")
    /\ selection_state.selected_ids = <<"b", "c">>
    /\ selection_state.selection_mode

\* C28: a manager never has more than one started transport, and none is
\* leaked: a handle that is connected, or was, accounts for one running
\* driver; after _ensure_browser replaced a handle, after a failed connect
\* and after close() no other driver started by the manager is running.
C28_NoTransportLeaked ==
    transports <= (IF chatgpt \in {"Live", "Dead"} THEN 1 ELSE 0)

C28_TwoDriversAfterSpawn ==
    /\ last.op = "ensure_browser"
    /\ ~last.raised
    /\ last.spawns = 1
    /\ last.attaches = 2
    /\ chatgpt = "Live"
    /\ transports = 2

\* C29: the url stored with a conversation by export or auto-save is always
\* the url of a thread into which that conversation's messages were
\* delivered, also when another manager navigated the daemon's page between
\* this manager's last send and its export.
C29_StoredUrlIsDeliveryThread ==
    \A p \in Paths :
        files[p].kind = "json" => Get(files[p].data, "url", None) \in delivered \cup {None}

C29_ExportedOtherManagersThread ==
    /\ last.op = "export"
    /\ ~last.raised
    /\ delivered = {"c1"}
    /\ Len(current_conversation.messages) = 2
    /\ files[last.arg].kind = "json"
    /\ Get(files[last.arg].data, "url", None) = "c2"
    /\ Get(files[AutoPath(current_conversation.id)].data, "url", None) = "c1"

\* C27: when two managers both need the browser while no daemon is
\* reachable and their connect attempts interleave, at most one daemon
\* process is spawned: no manager spawns one while the other, having
\* spawned, is still waiting for its daemon or attaching to it.
C27_SecondManagerAttaches ==
    [][spawned' > spawned =>
          \A o \in Managers : managers[o] \notin {"polling", "reattach"}]_vars

C27_BothSpawned ==
    /\ spawned = 2
    /\ managers = [m \in Managers |-> "polling"]
    /\ daemon = "starting"
====
